---------------------------- MODULE Spec2Model ----------------------------
(* Model of coop_heap: the cooperative allocator traits CoAllocator        *)
(* (src/src/alloc.rs) and GlobalCoAlloc (src/src/global.rs).  The two      *)
(* required primitives of each trait are left to the implementer, so they  *)
(* are modelled by their contract (a free address, any contents, any       *)
(* metadata, or a failure); the default-derived operations are translated  *)
(* from their bodies, one step per primitive call or memory copy.          *)
EXTENDS Integers, Sequences, FiniteSets, TLC

(* ------------------------------ bounds -------------------------------- *)
MaxRegions == 2
MaxSize == 2

(* ----------------------------- value sets ----------------------------- *)
NULL == 0
Addrs == 1..MaxRegions
(* Zero and one non-zero value: the operations fill with zero and copy, and
   never inspect a byte, so one non-zero value stands for all of them. *)
Byte == {0, 1}
(* The metadata type M is opaque; two values tell an old pair's metadata
   from a new one's. *)
Metas == {0, 1}
Aligns == {1, 2}
Layout == [size : 0..MaxSize, align : Aligns]

Min(a, b) == IF a <= b THEN a ELSE b

AllBytes(n) == [1..n -> Byte]

Dead == [live |-> FALSE, bytes |-> <<>>, meta |-> 0,
         layout |-> [size |-> 0, align |-> 1]]

NoHandle == [held |-> FALSE, meta |-> 0, layout |-> [size |-> 0, align |-> 1]]

Handle(m, l) == [held |-> TRUE, meta |-> m, layout |-> l]

(* Variant of from_size_align_unchecked that drops the alignment. *)
from_size_align_default(size, align) == [size |-> size, align |-> 1]

(* Layout::from_size_align_unchecked(new_size, layout.align()) *)
from_size_align_unchecked(size, align) == [size |-> size, align |-> align]

(* ------------------------- memory primitives -------------------------- *)
(* Variant of write_bytes that stops one byte early. *)
write_bytes_short(bytes, n) ==
    [i \in 1..Len(bytes) |-> IF i < n THEN 0 ELSE bytes[i]]

(* ptr.write_bytes(0, n): the first n bytes become zero. *)
write_bytes(bytes, n) ==
    [i \in 1..Len(bytes) |-> IF i <= n THEN 0 ELSE bytes[i]]

(* Variant of copy_nonoverlapping that stops one byte early. *)
copy_nonoverlapping_short(src, dst, n) ==
    [i \in 1..Len(dst) |-> IF i < n THEN src[i] ELSE dst[i]]

(* ptr::copy_nonoverlapping(src, dst, n): the first n bytes of dst become
   the first n bytes of src. *)
copy_nonoverlapping(src, dst, n) ==
    [i \in 1..Len(dst) |-> IF i <= n THEN src[i] ELSE dst[i]]

(* --------------------- the implementer's primitives ------------------- *)
Free(h) == {a \in Addrs : ~h[a].live}

(* Where a new block is placed: no operation computes with an address, so
   addresses are interchangeable and the allocator modelled takes the lowest
   free one. *)
Place(h) == {a \in Free(h) : \A b \in Free(h) : a <= b}

AllocFailure == [ok |-> FALSE, addr |-> NULL, meta |-> 0, region |-> Dead]

(* The length of the slice an allocation of this layout yields: at least
   layout.size(); the allocator modelled rounds the size up to a multiple
   of the alignment, so the slice can be longer than what was asked for. *)
usable_size(layout) ==
    ((layout.size + layout.align - 1) \div layout.align) * layout.align

(* CoAllocator::co_allocate: Err(AllocError), or a fresh slice of at least
   layout.size() bytes with unspecified contents and a metadata value. *)
co_allocate(h, layout) ==
    {AllocFailure} \cup
    {[ok |-> TRUE, addr |-> a, meta |-> m,
      region |-> [live |-> TRUE, bytes |-> b, meta |-> m, layout |-> layout]] :
        a \in Place(h), m \in Metas, b \in AllBytes(usable_size(layout))}

(* GlobalCoAlloc::co_alloc: a null pointer (with some metadata value), or a
   fresh block of layout.size() bytes with unspecified contents. *)
co_alloc(h, layout) ==
    {[ok |-> FALSE, addr |-> NULL, meta |-> m, region |-> Dead] : m \in Metas}
    \cup
    {[ok |-> TRUE, addr |-> a, meta |-> m,
      region |-> [live |-> TRUE, bytes |-> b, meta |-> m, layout |-> layout]] :
        a \in Place(h), m \in Metas, b \in AllBytes(layout.size)}

(* One record per primitive deallocation call: what was passed, and whether
   it matched the block the allocator holds at that address. *)
DeallocCall(h, a, m, l) ==
    [addr |-> a, meta |-> m, layout |-> l,
     wasLive |-> (a \in Addrs /\ h[a].live),
     metaOk |-> (a \in Addrs /\ h[a].meta = m),
     layoutOk |-> (a \in Addrs /\ h[a].layout = l)]

(* co_deallocate / co_dealloc: the block at that address is released. *)
Release(h, a) == IF a \in Addrs THEN [h EXCEPT ![a] = Dead] ELSE h

(* ------------------------ derived allocation -------------------------- *)
(* CoAllocator::co_allocate_zeroed, applied to the result o of its
   self.co_allocate(layout) call: `?` passes a failure through, otherwise
   the whole returned slice is overwritten with zero. *)
co_allocate_zeroed(o) ==
    IF o.ok
      THEN [o EXCEPT !.region.bytes = write_bytes(@, Len(@))]
      ELSE o

(* GlobalCoAlloc::co_alloc_zeroed, applied to the result o of its
   self.co_alloc(layout) call: layout.size() bytes are zeroed unless the
   pointer is null. *)
co_alloc_zeroed(o, layout) ==
    IF o.addr # NULL
      THEN [o EXCEPT !.region.bytes = write_bytes(@, layout.size)]
      ELSE o

(* ------------------------------- state -------------------------------- *)
VARIABLES
    variant,  \* which trait the allocator implements: "alloc" or "global"
    heap,     \* the allocator's blocks: address -> block
    owned,    \* the caller's pairs: address -> metadata and layout returned
    pc,       \* position inside a derived operation: idle / copy / dealloc
    cur,      \* frame of the operation in progress
    ret,      \* frame of the operation that returned last
    rt        \* the block produced by the latest co_grow and its source bytes

vars == <<variant, heap, owned, pc, cur, ret, rt>>

NoFrame == [op |-> "none"]

NoTrack == [on |-> FALSE, addr |-> NULL, orig |-> <<>>]

(* The frame of a call of op on the pair at address a (NULL when the call
   takes no pair).  pre holds the old block's bytes while the operation
   runs, beyond those past old_layout.size(); allocs, deallocs and trace
   record the primitive calls and copies the operation has made. *)
Frame(op, a, oldLayout, newLayout) ==
    [op |-> op, status |-> "running",
     old |-> a,
     oldMeta |-> IF a = NULL THEN 0 ELSE owned[a].meta,
     oldLayout |-> oldLayout, newLayout |-> newLayout,
     newSize |-> newLayout.size,
     pre |-> IF a = NULL THEN <<>> ELSE heap[a].bytes,
     beyond |-> IF a = NULL THEN <<>>
                ELSE SubSeq(heap[a].bytes, oldLayout.size + 1,
                            Len(heap[a].bytes)),
     new |-> NULL, newMeta |-> 0, fresh |-> <<>>,
     allocs |-> <<>>, deallocs |-> <<>>, trace |-> <<>>,
     readDead |-> FALSE, rtOn |-> FALSE]

(* The frame after the allocation call returned o for request l; raw is
   what the primitive left in the block when the operation zeroes it. *)
Allocated(f, o, raw, l) ==
    [f EXCEPT !.new = o.addr, !.newMeta = o.meta, !.fresh = raw,
              !.allocs = Append(@, l), !.trace = Append(@, "allocate")]

Install(h, o) == IF o.addr = NULL THEN h ELSE [h EXCEPT ![o.addr] = o.region]

Held == {a \in Addrs : owned[a].held}

Sizes(v) == IF v = "global" THEN 1..MaxSize ELSE 0..MaxSize

Requests == {l \in Layout : l.size \in Sizes(variant)}

(* The caller modelled works on one block at a time: it asks for a block
   when it holds none, and replaces or releases the one it holds. *)
MayAllocate == Held = {}

Init ==
    /\ variant \in {"alloc", "global"}
    /\ heap = [a \in Addrs |-> Dead]
    /\ owned = [a \in Addrs |-> NoHandle]
    /\ pc = "idle"
    /\ cur = NoFrame
    /\ ret = NoFrame
    /\ rt = NoTrack

(* ------------------- calls that are a single step --------------------- *)
(* The caller stores byte b at offset i of a block it owns. *)
Write ==
    /\ pc = "idle"
    /\ \E a \in Held : \E i \in 1..Len(heap[a].bytes) : \E b \in Byte :
         /\ heap[a].bytes[i] # b
         /\ heap' = [heap EXCEPT ![a].bytes[i] = b]
         /\ rt' = IF rt.on /\ rt.addr = a /\ i <= Len(rt.orig)
                    THEN NoTrack ELSE rt
    /\ ret' = NoFrame
    /\ UNCHANGED <<variant, owned, pc, cur>>

Call_co_allocate ==
    /\ pc = "idle" /\ variant = "alloc" /\ MayAllocate
    /\ \E l \in Requests : \E o \in co_allocate(heap, l) :
         /\ heap' = Install(heap, o)
         /\ owned' = IF o.ok THEN [owned EXCEPT ![o.addr] = Handle(o.meta, l)]
                             ELSE owned
         /\ ret' = [Allocated(Frame("co_allocate", NULL, l, l), o, <<>>, l)
                      EXCEPT !.status = IF o.ok THEN "ok" ELSE "err"]
    /\ UNCHANGED <<variant, pc, cur, rt>>

Call_co_allocate_zeroed ==
    /\ pc = "idle" /\ variant = "alloc" /\ MayAllocate
    /\ \E l \in Requests : \E raw \in co_allocate(heap, l) :
         LET o == co_allocate_zeroed(raw) IN
         /\ heap' = Install(heap, o)
         /\ owned' = IF o.ok THEN [owned EXCEPT ![o.addr] = Handle(o.meta, l)]
                             ELSE owned
         /\ ret' = [Allocated(Frame("co_allocate_zeroed", NULL, l, l), o,
                              raw.region.bytes, l)
                      EXCEPT !.status = IF o.ok THEN "ok" ELSE "err"]
    /\ UNCHANGED <<variant, pc, cur, rt>>

Call_co_alloc ==
    /\ pc = "idle" /\ variant = "global" /\ MayAllocate
    /\ \E l \in Requests : \E o \in co_alloc(heap, l) :
         /\ heap' = Install(heap, o)
         /\ owned' = IF o.addr # NULL
                       THEN [owned EXCEPT ![o.addr] = Handle(o.meta, l)]
                       ELSE owned
         /\ ret' = [Allocated(Frame("co_alloc", NULL, l, l), o, <<>>, l)
                      EXCEPT !.status = IF o.addr # NULL THEN "ok" ELSE "null"]
    /\ UNCHANGED <<variant, pc, cur, rt>>

Call_co_alloc_zeroed ==
    /\ pc = "idle" /\ variant = "global" /\ MayAllocate
    /\ \E l \in Requests : \E raw \in co_alloc(heap, l) :
         LET o == co_alloc_zeroed(raw, l) IN
         /\ heap' = Install(heap, o)
         /\ owned' = IF o.addr # NULL
                       THEN [owned EXCEPT ![o.addr] = Handle(o.meta, l)]
                       ELSE owned
         /\ ret' = [Allocated(Frame("co_alloc_zeroed", NULL, l, l), o,
                              raw.region.bytes, l)
                      EXCEPT !.status = IF o.addr # NULL THEN "ok" ELSE "null"]
    /\ UNCHANGED <<variant, pc, cur, rt>>

(* The caller releases a block with the pair and layout it was given:
   co_deallocate for CoAllocator, co_dealloc for GlobalCoAlloc. *)
Call_co_deallocate ==
    /\ pc = "idle"
    /\ \E a \in Held :
         LET f == Frame(IF variant = "alloc" THEN "co_deallocate"
                                             ELSE "co_dealloc",
                        a, owned[a].layout, owned[a].layout) IN
         /\ heap' = Release(heap, a)
         /\ owned' = [owned EXCEPT ![a] = NoHandle]
         /\ rt' = IF rt.on /\ rt.addr = a THEN NoTrack ELSE rt
         /\ ret' = [f EXCEPT !.status = "ok", !.pre = <<>>,
                             !.deallocs = Append(@, DeallocCall(heap, a,
                                              owned[a].meta, owned[a].layout)),
                             !.trace = Append(@, "deallocate")]
    /\ UNCHANGED <<variant, pc, cur>>

(* --------------- grow, grow-zeroed, shrink and realloc ---------------- *)
(* Variant of StepAfter that deallocates the old block before the copy. *)
StepAfter_dealloc_first(step) ==
    CASE step = "allocate" -> "dealloc"
      [] step = "dealloc" -> "copy"
      [] step = "copy" -> "idle"

(* The order of the statements of a derived operation: the allocation call,
   then ptr::copy_nonoverlapping, then the deallocation call, then the
   return of the new pair. *)
StepAfter(step) ==
    CASE step = "allocate" -> "copy"
      [] step = "copy" -> "dealloc"
      [] step = "dealloc" -> "idle"

(* Variant of Result that hands back the metadata of the old pair. *)
Result_old_meta(f) == [addr |-> f.new, meta |-> f.oldMeta]

(* The pair a successful derived operation returns: the new block with the
   metadata its allocation produced. *)
Result(f) == [addr |-> f.new, meta |-> f.newMeta]

(* The block tracked for the grow-then-shrink round trip once operation f
   has returned. *)
Track(f) ==
    IF f.op = "co_grow"
      THEN [on |-> TRUE, addr |-> f.new,
            orig |-> SubSeq(f.pre, 1, f.oldLayout.size)]
      ELSE IF rt.on /\ rt.addr \in {f.old, f.new} THEN NoTrack ELSE rt

(* The operation goes on to its next statement, or returns Result(f): the
   caller gives up the old pair and holds the new one. *)
Advance(f, next) ==
    IF next = "idle"
      THEN /\ owned' = [owned EXCEPT ![f.old] = NoHandle,
                                     ![Result(f).addr] =
                                         Handle(Result(f).meta, f.newLayout)]
           /\ ret' = [f EXCEPT !.status = "ok",
                               !.pre = <<>>,
                               !.newMeta = Result(f).meta,
                               !.rtOn = (f.op = "shrink" /\ rt.on
                                         /\ rt.addr = f.old
                                         /\ Len(rt.orig) = f.newLayout.size)]
           /\ rt' = Track(f)
           /\ pc' = "idle"
           /\ cur' = NoFrame
      ELSE /\ pc' = next
           /\ cur' = f
           /\ ret' = NoFrame
           /\ UNCHANGED <<owned, rt>>

(* Variant of Begin that deallocates the old block when the allocation
   fails. *)
Begin_release_on_failure(f, o, failure) ==
    /\ IF o.addr # NULL
         THEN /\ heap' = Install(heap, o)
              /\ Advance(f, StepAfter("allocate"))
         ELSE /\ heap' = Release(heap, f.old)
              /\ pc' = "idle"
              /\ cur' = NoFrame
              /\ ret' = [f EXCEPT !.status = failure, !.pre = <<>>,
                                  !.deallocs = Append(@, DeallocCall(heap,
                                                   f.old, f.oldMeta, f.oldLayout))]
              /\ UNCHANGED <<owned, rt>>
    /\ UNCHANGED variant

(* Variant of Begin that scrubs the old block when the allocation fails. *)
Begin_scrub_on_failure(f, o, failure) ==
    /\ IF o.addr # NULL
         THEN /\ heap' = Install(heap, o)
              /\ Advance(f, StepAfter("allocate"))
         ELSE /\ heap' = [heap EXCEPT ![f.old].bytes = write_bytes(@, Len(@))]
              /\ pc' = "idle"
              /\ cur' = NoFrame
              /\ ret' = [f EXCEPT !.status = failure, !.pre = <<>>]
              /\ UNCHANGED <<owned, rt>>
    /\ UNCHANGED variant

(* After the allocation call of a derived operation: a failure (`?` on an
   Err, or a null pointer) returns at once and touches nothing; a success
   goes on to the next statement. *)
Begin(f, o, failure) ==
    /\ IF o.addr # NULL
         THEN /\ heap' = Install(heap, o)
              /\ Advance(f, StepAfter("allocate"))
         ELSE /\ heap' = heap
              /\ pc' = "idle"
              /\ cur' = NoFrame
              /\ ret' = [f EXCEPT !.status = failure, !.pre = <<>>]
              /\ UNCHANGED <<owned, rt>>
    /\ UNCHANGED variant

(* The ptr::copy_nonoverlapping call of operation op, of n bytes from the
   old block to the new one.  Reading a block that was already released
   yields unspecified bytes. *)
CopyStep(op, n) ==
    /\ pc = "copy" /\ cur.op = op
    /\ \E src \in (IF heap[cur.old].live THEN {heap[cur.old].bytes}
                                         ELSE AllBytes(n)) :
         heap' = [heap EXCEPT ![cur.new].bytes = copy_nonoverlapping(src, @, n)]
    /\ Advance([cur EXCEPT !.trace = Append(@, "copy"),
                           !.readDead = ~heap[cur.old].live],
               StepAfter("copy"))
    /\ UNCHANGED variant

(* The deallocation call of operation op: the old pointer with metadata m
   and layout l. *)
DeallocStep(op, m, l) ==
    /\ pc = "dealloc" /\ cur.op = op
    /\ heap' = Release(heap, cur.old)
    /\ Advance([cur EXCEPT !.deallocs =
                               Append(@, DeallocCall(heap, cur.old, m, l)),
                           !.trace = Append(@, "deallocate")],
               StepAfter("dealloc"))
    /\ UNCHANGED variant

(* CoAllocator::co_grow.  The caller keeps the precondition that the
   debug_assert! states: new_layout.size() >= old_layout.size(). *)
co_grow_allocate ==
    /\ pc = "idle" /\ variant = "alloc"
    /\ \E a \in Held : \E nl \in Requests :
         /\ nl.size >= owned[a].layout.size
         /\ \E o \in co_allocate(heap, nl) :
              Begin(Allocated(Frame("co_grow", a, owned[a].layout, nl), o,
                              <<>>, nl), o, "err")

(* Variant of co_grow_copy that copies one byte too few. *)
co_grow_copy_short == CopyStep("co_grow", cur.oldLayout.size - 1)

co_grow_copy == CopyStep("co_grow", cur.oldLayout.size)

co_grow_deallocate ==
    DeallocStep("co_grow", cur.oldMeta, cur.oldLayout)

(* Variant of co_grow_zeroed_allocate that calls co_allocate instead of
   co_allocate_zeroed. *)
co_grow_zeroed_allocate_unzeroed ==
    /\ pc = "idle" /\ variant = "alloc"
    /\ \E a \in Held : \E nl \in Requests :
         /\ nl.size >= owned[a].layout.size
         /\ \E o \in co_allocate(heap, nl) :
              Begin(Allocated(Frame("co_grow_zeroed", a, owned[a].layout, nl),
                              o, o.region.bytes, nl), o, "err")

(* CoAllocator::co_grow_zeroed, under the same precondition as co_grow. *)
co_grow_zeroed_allocate ==
    /\ pc = "idle" /\ variant = "alloc"
    /\ \E a \in Held : \E nl \in Requests :
         /\ nl.size >= owned[a].layout.size
         /\ \E raw \in co_allocate(heap, nl) :
              LET o == co_allocate_zeroed(raw) IN
              Begin(Allocated(Frame("co_grow_zeroed", a, owned[a].layout, nl),
                              o, raw.region.bytes, nl), o, "err")

co_grow_zeroed_copy == CopyStep("co_grow_zeroed", cur.oldLayout.size)

co_grow_zeroed_deallocate ==
    DeallocStep("co_grow_zeroed", cur.oldMeta, cur.oldLayout)

(* CoAllocator::shrink.  The caller keeps the precondition that the
   debug_assert! states: new_layout.size() <= old_layout.size(). *)
shrink_allocate ==
    /\ pc = "idle" /\ variant = "alloc"
    /\ \E a \in Held : \E nl \in Requests :
         /\ nl.size <= owned[a].layout.size
         /\ \E o \in co_allocate(heap, nl) :
              Begin(Allocated(Frame("shrink", a, owned[a].layout, nl), o,
                              <<>>, nl), o, "err")

shrink_copy == CopyStep("shrink", cur.newLayout.size)

(* Variant of shrink_deallocate that passes the new layout. *)
shrink_deallocate_new_layout ==
    DeallocStep("shrink", cur.oldMeta, cur.newLayout)

shrink_deallocate ==
    DeallocStep("shrink", cur.oldMeta, cur.oldLayout)

(* GlobalCoAlloc::co_realloc, for any new_size greater than zero. *)
co_realloc_alloc ==
    /\ pc = "idle" /\ variant = "global"
    /\ \E a \in Held : \E new_size \in Sizes("global") :
         LET layout == owned[a].layout
             new_layout == from_size_align_unchecked(new_size, layout.align) IN
         \E o \in co_alloc(heap, new_layout) :
              Begin(Allocated([Frame("co_realloc", a, layout, new_layout)
                                 EXCEPT !.newSize = new_size],
                              o, <<>>, new_layout), o, "null")

co_realloc_copy ==
    CopyStep("co_realloc", Min(cur.oldLayout.size, cur.newLayout.size))

co_realloc_dealloc ==
    DeallocStep("co_realloc", cur.oldMeta, cur.oldLayout)

Next ==
    \/ Write
    \/ Call_co_allocate
    \/ Call_co_allocate_zeroed
    \/ Call_co_alloc
    \/ Call_co_alloc_zeroed
    \/ Call_co_deallocate
    \/ co_grow_allocate
    \/ co_grow_copy
    \/ co_grow_deallocate
    \/ co_grow_zeroed_allocate
    \/ co_grow_zeroed_copy
    \/ co_grow_zeroed_deallocate
    \/ shrink_allocate
    \/ shrink_copy
    \/ shrink_deallocate
    \/ co_realloc_alloc
    \/ co_realloc_copy
    \/ co_realloc_dealloc

Spec == Init /\ [][Next]_vars

TypeOK ==
    /\ variant \in {"alloc", "global"}
    /\ pc \in {"idle", "copy", "dealloc"}
    /\ \A a \in Addrs : heap[a].live \in BOOLEAN /\ owned[a].held \in BOOLEAN

(* ------------------------------ properties --------------------------- *)
Prefix(b, n) == SubSeq(b, 1, n)

AllZero(b) == \A i \in 1..Len(b) : b[i] = 0

NoZero(b) == \A i \in 1..Len(b) : b[i] # 0

(* The operations that replace a block by a new one. *)
Replacing == {"co_grow", "co_grow_zeroed", "shrink", "co_realloc"}

(* The step on which operation op returns its new pair. *)
Returns(op) == cur.op = op /\ ret'.op = op /\ ret'.status = "ok"

(* The step on which operation op returns the failure of its allocation. *)
Fails(op, failure) == pc = "idle" /\ ret'.op = op /\ ret'.status = failure

(* Exactly one deallocation call was made by the operation that returned,
   for the old pointer and with the old layout. *)
OneDeallocOfOld ==
    /\ Len(ret.deallocs) = 1
    /\ ret.deallocs[1].addr = ret.old
    /\ ret.deallocs[1].layout = ret.oldLayout
    /\ ~heap[ret.old].live

(* A failing step made no deallocation call, wrote no byte and left the old
   block live and its pair with the caller. *)
OldUntouched ==
    /\ ret'.new = NULL
    /\ ret'.deallocs = <<>>
    /\ heap' = heap
    /\ heap'[ret'.old].live
    /\ owned' = owned
    /\ owned'[ret'.old] = Handle(ret'.oldMeta, ret'.oldLayout)

(* C1: when the co_alloc call inside co_realloc returns a null pointer,
   co_realloc returns a null pointer, co_dealloc is not called, and the old
   block stays allocated with every byte unchanged. *)
C1_ReallocFailureKeepsOld ==
    [][Fails("co_realloc", "null") => OldUntouched]_vars

C1_Witness ==
    /\ ret.op = "co_realloc" /\ ret.status = "null"
    /\ heap[ret.old].live
    /\ NoZero(heap[ret.old].bytes)

(* C2: when the allocation inside co_grow, co_grow_zeroed or shrink fails,
   the failure is returned, co_deallocate is not called, no byte of the old
   block is written, and the old block stays live and held by the caller. *)
C2_GrowShrinkFailureKeepsOld ==
    [][\A op \in {"co_grow", "co_grow_zeroed", "shrink"} :
          Fails(op, "err") => OldUntouched]_vars

C2_Witness ==
    /\ ret.op = "co_grow_zeroed" /\ ret.status = "err"
    /\ owned[ret.old].held
    /\ ret.oldLayout.size >= 1
    /\ NoZero(heap[ret.old].bytes)

(* C3: a successful co_grow returns a block whose first old_layout.size()
   bytes are those the old block held at the call, and the old pair was
   released by exactly one co_deallocate call with old_layout. *)
C3_GrowKeepsContents ==
    [][Returns("co_grow") =>
          /\ ret'.newLayout.size >= ret'.oldLayout.size
          /\ heap'[ret'.new].live
          /\ Prefix(heap'[ret'.new].bytes, ret'.oldLayout.size)
               = Prefix(cur.pre, ret'.oldLayout.size)
          /\ OneDeallocOfOld']_vars

C3_Witness ==
    /\ ret.op = "co_grow" /\ ret.status = "ok"
    /\ ret.oldLayout.size >= 1
    /\ ret.newLayout.size > ret.oldLayout.size
    /\ NoZero(Prefix(heap[ret.new].bytes, ret.oldLayout.size))

(* C4: a successful co_grow_zeroed returns a block whose bytes from
   old_layout.size() to new_layout.size() are all zero, whatever co_allocate
   left in the fresh block and whatever lay beyond the old block's size,
   and whose first old_layout.size() bytes are the old contents. *)
C4_GrowZeroedTail ==
    [][Returns("co_grow_zeroed") =>
          /\ \A i \in (ret'.oldLayout.size + 1)..ret'.newLayout.size :
                 heap'[ret'.new].bytes[i] = 0
          /\ Prefix(heap'[ret'.new].bytes, ret'.oldLayout.size)
               = Prefix(cur.pre, ret'.oldLayout.size)]_vars

C4_Witness ==
    /\ ret.op = "co_grow_zeroed" /\ ret.status = "ok"
    /\ ret.oldLayout.size >= 1
    /\ ret.newLayout.size > ret.oldLayout.size
    /\ NoZero(ret.fresh)
    /\ ret.beyond # <<>> /\ NoZero(ret.beyond)
    /\ NoZero(Prefix(heap[ret.new].bytes, ret.oldLayout.size))

(* C5: a successful shrink returns a block whose first new_layout.size()
   bytes are the corresponding prefix of the old block, and the old pair
   was released by co_deallocate with old_layout. *)
C5_ShrinkKeepsPrefix ==
    [][Returns("shrink") =>
          /\ ret'.newLayout.size <= ret'.oldLayout.size
          /\ heap'[ret'.new].live
          /\ Prefix(heap'[ret'.new].bytes, ret'.newLayout.size)
               = Prefix(cur.pre, ret'.newLayout.size)
          /\ OneDeallocOfOld'
          /\ ret'.deallocs[1].layoutOk]_vars

C5_Witness ==
    /\ ret.op = "shrink" /\ ret.status = "ok"
    /\ ret.newLayout.size >= 1
    /\ ret.newLayout.size < ret.oldLayout.size
    /\ ret.newLayout.align # ret.oldLayout.align
    /\ NoZero(Prefix(heap[ret.new].bytes, ret.newLayout.size))

(* C6: when the co_alloc call inside co_realloc returns a non-null pointer,
   the new block was requested with size new_size and the alignment of the
   old layout, its first min(old size, new_size) bytes are the old block's,
   the old pair was released by exactly one co_dealloc call with the old
   layout, and the new pair is returned. *)
C6_ReallocSuccess ==
    [][Returns("co_realloc") =>
          /\ ret'.allocs = <<[size |-> ret'.newSize,
                              align |-> ret'.oldLayout.align]>>
          /\ heap'[ret'.new].live
          /\ Prefix(heap'[ret'.new].bytes,
                    Min(ret'.oldLayout.size, ret'.newSize))
               = Prefix(cur.pre, Min(ret'.oldLayout.size, ret'.newSize))
          /\ OneDeallocOfOld'
          /\ owned'[ret'.new]
               = Handle(heap'[ret'.new].meta, heap'[ret'.new].layout)]_vars

C6_Witness ==
    /\ ret.op = "co_realloc" /\ ret.status = "ok"
    /\ ret.newSize < ret.oldLayout.size
    /\ ret.oldLayout.align = 2
    /\ NoZero(heap[ret.new].bytes)

ZeroedOps == {"co_allocate_zeroed", "co_alloc_zeroed"}

(* C7: a successful co_allocate_zeroed, and a co_alloc_zeroed that returns a
   non-null pointer, return a block whose every byte is zero whatever the
   primitive left in it; when the primitive fails, no byte is written and
   the failure is what is returned. *)
C7_ZeroedAllocation ==
    [][ret'.op \in ZeroedOps =>
          IF ret'.status = "ok"
            THEN /\ heap'[ret'.new].live
                 /\ Len(heap'[ret'.new].bytes) >= ret'.newLayout.size
                 /\ AllZero(heap'[ret'.new].bytes)
            ELSE /\ ret'.new = NULL
                 /\ ret'.status = (IF ret'.op = "co_alloc_zeroed"
                                     THEN "null" ELSE "err")
                 /\ heap' = heap]_vars

C7_Witness ==
    /\ ret.op = "co_allocate_zeroed" /\ ret.status = "ok"
    /\ ret.newLayout.size = 2
    /\ NoZero(ret.fresh)

(* C8: a block of size s grown with co_grow to a size t >= s and then
   shrunk back to s with shrink holds, over 0..s, the contents the original
   block had when it was grown. *)
C8_GrowShrinkRoundTrip ==
    [][(Returns("shrink") /\ ret'.rtOn) =>
          /\ Len(rt.orig) = ret'.newLayout.size
          /\ Prefix(heap'[ret'.new].bytes, ret'.newLayout.size) = rt.orig]_vars

C8_Witness ==
    /\ ret.op = "shrink" /\ ret.status = "ok" /\ ret.rtOn
    /\ ret.newLayout.size >= 1
    /\ ret.oldLayout.size > ret.newLayout.size
    /\ NoZero(Prefix(heap[ret.new].bytes, ret.newLayout.size))

(* C9: in every successful co_grow, co_grow_zeroed, shrink and co_realloc
   the steps are allocate, copy, deallocate in that order: the old block is
   not read after its release, and between the allocation and the
   deallocation the old and the new block are both live and distinct. *)
C9_AllocateCopyDeallocate ==
    /\ pc # "idle" =>
           /\ cur.old # cur.new
           /\ heap[cur.old].live
           /\ heap[cur.new].live
    /\ (ret.op \in Replacing /\ ret.status = "ok") =>
           /\ ret.trace = <<"allocate", "copy", "deallocate">>
           /\ ~ret.readDead

C9_Witness ==
    /\ pc = "dealloc"
    /\ cur.trace = <<"allocate", "copy">>
    /\ heap[cur.old].live /\ heap[cur.new].live

(* C10: every co_deallocate/co_dealloc call receives a block that is live
   at that moment, with the metadata and the layout it was produced with;
   the pairs the caller holds are exactly the live blocks with the metadata
   their own allocation produced. *)
C10_PairsStayMatched ==
    /\ ret.op # "none" =>
           \A i \in 1..Len(ret.deallocs) :
               /\ ret.deallocs[i].wasLive
               /\ ret.deallocs[i].metaOk
               /\ ret.deallocs[i].layoutOk
    /\ pc = "idle" =>
           \A a \in Addrs :
               /\ owned[a].held = heap[a].live
               /\ owned[a].held =>
                      owned[a] = Handle(heap[a].meta, heap[a].layout)
    /\ (ret.op \in Replacing /\ ret.status = "ok") =>
           ret.newMeta = heap[ret.new].meta

C10_Witness ==
    /\ ret.op \in Replacing /\ ret.status = "ok"
    /\ ret.oldMeta # ret.newMeta
    /\ ret.oldLayout # ret.newLayout
    /\ owned[ret.new].held

=============================================================================
